---- MODULE Spec2Model ----
(***************************************************************************)
(* A model of audioflex.overlap_add.OverlapAdd: the four cursors, the      *)
(* rate, the two setters and the recursive pull.                           *)
(*                                                                         *)
(* Rates are exact rationals <<p, q>> in lowest terms with q a power of    *)
(* two (or 1), so that Python's float product output_index * rate is exact *)
(* and round() sees the same value as the rational arithmetic below.       *)
(* The window's values play no part in the cursor logic; a read is         *)
(* recorded as the source position and the window column it is multiplied  *)
(* with.  All channels share the same columns and positions.               *)
(***************************************************************************)
EXTENDS Integers, Sequences, FiniteSets, TLC

\* ------------------------------------------------------------------ bounds
MaxBlock == 4
MaxPull == 4
MaxOut == 7
MaxSrc == 5
MaxNeg == 2
MaxChannels == 1
\* the two caller threads: the largest request, the output they ask up to
\* and the calls each of them makes
MaxThreadPull == 3
MaxThreadOut == 4
MaxThreadCalls == 1
\* frames the interpreter allows before it raises RecursionError; a request
\* of MaxPull samples needs at most MaxPull + 2 of them when it terminates
MaxDepth == MaxPull + 3

\* the block sizes with a semi-block of at least one sample; with block size 1
\* pull(n), n > 0, does not return, which SpecStep follows frame by frame
BlockSizes == 2..MaxBlock
ChannelCounts == 1..MaxChannels
\* the caller threads of the interleaved pulls
Threads == {"t1", "t2"}
\* rates handed to set_rate, and time factors handed to set_time_factor
Rates == {<<1, 2>>, <<1, 1>>, <<3, 2>>, <<2, 1>>}
TimeFactors == {<<0, 1>>, <<1, 2>>, <<1, 1>>, <<2, 1>>}

VARIABLES
    block_size,         \* self.block_size
    channels,           \* self.channels
    semi_block_index,   \* self._semi_block_index
    input_block_index,  \* self._input_block_index
    sum_buffer_index,   \* self._sum_buffer_index
    output_index,       \* self._output_index
    inv_time_factor,    \* self.inv_time_factor, a rational <<p, q>>
    source,             \* self.input_buffer: what the collaborator can supply
    last,               \* history: the last external call, its inputs and its result
    mark,               \* history: the last setter call and the cursors it saw
    total_requested,    \* history: the sum of n over the pulls that returned
    stack,              \* the frames of pull now on the call stack, outermost first
    ret,                \* the value the frame that just returned handed back
    cases,              \* history: the branch each invocation of the running call took
    call,               \* history: the external call the frames belong to
    threads             \* the frames of pull of each of two caller threads

stepvars == <<stack, ret, cases, call>>

vars == <<block_size, channels, semi_block_index, input_block_index,
          sum_buffer_index, output_index, inv_time_factor, source, last, mark,
          total_requested, stack, ret, cases, call, threads>>

\* ----------------------------------------------------------------- helpers
semi_block_samples == block_size \div 2

\* a slip in line 97: exact halves rounded up, as floor(x + 0.5) does
RoundHalfUp(num, den) ==
    LET fl == num \div den
        rem == num % den
    IN  IF 2 * rem < den THEN fl ELSE fl + 1

\* Python 3 round(): round half to even, of the rational num / den (den > 0)
RoundHalfEven(num, den) ==
    LET fl == num \div den
        rem == num % den
    IN  IF 2 * rem < den THEN fl
        ELSE IF 2 * rem > den THEN fl + 1
        ELSE IF fl % 2 = 0 THEN fl ELSE fl + 1

\* the engine's mutable fields as one value
State ==
    [semi_block_index |-> semi_block_index,
     input_block_index |-> input_block_index,
     sum_buffer_index |-> sum_buffer_index,
     output_index |-> output_index,
     inv_time_factor |-> inv_time_factor]

Cursors(s) ==
    <<s.semi_block_index, s.input_block_index, s.sum_buffer_index, s.output_index>>

\* whether input_buffer[start : start + length] is supplied
Supplies(start, length) ==
    IF length < 0 THEN source.reversed = "empty"
    ELSE (~source.bounded) \/ start + length <= source.len

\* a slip in _increment_indices: the offset in the semi-block is not advanced
increment_indices_without_offset(s, samples) ==
    [s EXCEPT !.input_block_index = @ + samples,
              !.sum_buffer_index = @ + samples,
              !.output_index = @ + samples]

\* a slip in _increment_indices: the output count is not advanced
increment_indices_without_output(s, samples) ==
    [s EXCEPT !.input_block_index = @ + samples,
              !.sum_buffer_index = @ + samples,
              !.semi_block_index = @ + samples]

increment_indices(s, samples) ==
    [s EXCEPT !.input_block_index = @ + samples,
              !.sum_buffer_index = @ + samples,
              !.output_index = @ + samples,
              !.semi_block_index = @ + samples]

\* np.hanning(M) in quarters: 0.5 - 0.5 cos(2 pi n / (M - 1)), n = 0..M-1, the
\* symmetric Hann window, whose values are multiples of 1/4 for M <= 5
hanning(M) ==
    CASE M <= 0 -> <<>>
      [] M = 1 -> <<4>>
      [] M = 2 -> <<0, 0>>
      [] M = 3 -> <<0, 4, 0>>
      [] M = 4 -> <<0, 3, 3, 0>>
      [] M = 5 -> <<0, 2, 4, 2, 0>>

\* the weight 1.0 in the unit of hanning: np.hanning(1) is [1.]
WindowUnit == hanning(1)[1]

\* a bound of a Python slice taken of a sequence of size elements
SliceIndex(i, size) ==
    IF i < 0 THEN (IF i + size < 0 THEN 0 ELSE i + size)
    ELSE IF i > size THEN size ELSE i

\* a slip in line 63: the slice starts one column late
get_window_slice_from_next(length, window_start) ==
    LET start == SliceIndex(window_start + 1, block_size)
        stop == SliceIndex(window_start + 1 + length, block_size)
    IN  [i \in 1..(stop - start) |-> start + i - 1]

\* the columns window[:, window_start : window_start + length], as many as the
\* window holds of them
get_window_slice(length, window_start) ==
    LET start == SliceIndex(window_start, block_size)
        stop == SliceIndex(window_start + length, block_size)
    IN  [i \in 1..(stop - start) |-> start + i - 1]

\* the columns of the product of an array of a columns and one of b columns,
\* -1 where numpy cannot broadcast them
Broadcast(a, b) ==
    IF a = b THEN a ELSE IF a = 1 THEN b ELSE IF b = 1 THEN a ELSE -1

\* the column of an array of len columns that column i of a product reads
Pick(len, i) == IF len = 1 THEN 1 ELSE i

\* an exception that leaves the call: the fields as they are at that point,
\* and the number of slices the source was asked for so far
Raised(s, err, asked) ==
    [ok |-> FALSE, s |-> s, reads |-> <<>>, err |-> err, asked |-> asked]

\* a slip in line 69: the summing chunk weighted with the current chunk's
\* half of the window
take_from_semi_block_one_half(s, samples) ==
    IF channels <= 0 THEN Raised(s, "IndexError", 0)
    ELSE IF ~Supplies(s.input_block_index, samples) THEN Raised(s, "SourceError", 1)
    ELSE IF ~Supplies(s.sum_buffer_index, samples) THEN Raised(s, "SourceError", 2)
    ELSE LET cur == get_window_slice(samples, s.semi_block_index)
         IN  [ok |-> TRUE,
              s |-> increment_indices(s, samples),
              reads |-> [i \in 1..Len(cur) |->
                           <<s.input_block_index + i - 1, cur[i],
                             s.sum_buffer_index + i - 1, cur[i]>>],
              err |-> "none",
              asked |-> 2]

\* lines 66-70, one read per output sample:
\* <<current position, its window column, summing position, its window column>>
\* with channels <= 0 the window array has no second axis and line 63 raises;
\* a product of chunks of different widths raises unless one has one column;
\* ragged: cur and add differ in width, which the sum of line 74 will not take
read_chunks(s, samples) ==
    LET cur_window == get_window_slice(samples, s.semi_block_index)
        add_window == get_window_slice(samples,
                                       semi_block_samples + s.semi_block_index)
        got == IF samples < 0 THEN 0 ELSE samples
        cur == Broadcast(got, Len(cur_window))
        add == Broadcast(got, Len(add_window))
        failed(err, asked) ==
            [err |-> err, asked |-> asked, ragged |-> FALSE, reads |-> <<>>]
    IN  IF channels <= 0 THEN failed("IndexError", 0)
        ELSE IF ~Supplies(s.input_block_index, samples) THEN failed("SourceError", 1)
        ELSE IF cur < 0 THEN failed("ValueError", 1)
        ELSE IF ~Supplies(s.sum_buffer_index, samples) THEN failed("SourceError", 2)
        ELSE IF add < 0 THEN failed("ValueError", 2)
        ELSE IF cur # add
             THEN [err |-> "none", asked |-> 2, ragged |-> TRUE, reads |-> <<>>]
        ELSE [err |-> "none", asked |-> 2, ragged |-> FALSE,
              reads |-> [i \in 1..cur |->
                           <<s.input_block_index + Pick(got, i) - 1,
                             cur_window[Pick(Len(cur_window), i)],
                             s.sum_buffer_index + Pick(got, i) - 1,
                             add_window[Pick(Len(add_window), i)]>>]]

\* lines 65-74: an exception of lines 66-70 leaves the cursors as they are,
\* one of line 74 leaves them advanced
take_from_semi_block(s, samples) ==
    LET chunks == read_chunks(s, samples)
    IN  IF chunks.err # "none" THEN Raised(s, chunks.err, chunks.asked)
        ELSE IF chunks.ragged
             THEN Raised(increment_indices(s, samples), "ValueError", chunks.asked)
        ELSE [ok |-> TRUE,
              s |-> increment_indices(s, samples),
              reads |-> chunks.reads,
              err |-> "none",
              asked |-> chunks.asked]

\* a slip in line 97: the read head computed from the start of the finished
\* semi-block
update_from_block_start(s) ==
    [s EXCEPT !.sum_buffer_index = s.input_block_index,
              !.input_block_index =
                  RoundHalfEven((s.output_index - semi_block_samples)
                                    * s.inv_time_factor[1],
                                s.inv_time_factor[2]),
              !.semi_block_index = 0]

\* a slip in lines 96-97: the summing buffer takes the new read head
update_sum_after_input(s) ==
    LET new_input == RoundHalfEven(s.output_index * s.inv_time_factor[1],
                                   s.inv_time_factor[2])
    IN  [s EXCEPT !.sum_buffer_index = new_input,
                  !.input_block_index = new_input,
                  !.semi_block_index = 0]

\* a slip in line 98: the semi-block offset is not reset
update_without_reset(s) ==
    [s EXCEPT !.sum_buffer_index = s.input_block_index,
              !.input_block_index =
                  RoundHalfEven(s.output_index * s.inv_time_factor[1],
                                s.inv_time_factor[2])]

update_block_indices(s) ==
    [s EXCEPT !.sum_buffer_index = s.input_block_index,
              !.input_block_index =
                  RoundHalfEven(s.output_index * s.inv_time_factor[1],
                                s.inv_time_factor[2]),
              !.semi_block_index = 0]

RECURSIVE pull(_, _)

\* a slip in line 85: the whole block where the semi-block is meant
fits_in_block(s, samples) ==
    s.semi_block_index + samples <= block_size

\* line 85: the request fits in what is left of the semi-block
fits_in_semi_block(s, samples) ==
    s.semi_block_index + samples <= semi_block_samples

\* a slip in line 92: what is left of the request is taken from the new
\* semi-block at once, as if it could not go beyond it
pull_spanning_one_boundary(s, samples) ==
    LET block_end == pull(s, semi_block_samples - s.semi_block_index)
    IN  IF ~block_end.ok THEN block_end
        ELSE LET new_block == take_from_semi_block(update_block_indices(block_end.s),
                                                   samples - Len(block_end.reads))
             IN  [ok |-> new_block.ok,
                  s |-> new_block.s,
                  reads |-> IF new_block.ok
                            THEN block_end.reads \o new_block.reads
                            ELSE <<>>,
                  err |-> new_block.err,
                  asked |-> block_end.asked + new_block.asked]

\* lines 90-93: the remainder of the semi-block, the boundary, then the rest
pull_spanning(s, samples) ==
    LET block_end == pull(s, semi_block_samples - s.semi_block_index)
    IN  IF ~block_end.ok THEN block_end
        ELSE LET new_block == pull(update_block_indices(block_end.s),
                                   samples - Len(block_end.reads))
             IN  [ok |-> new_block.ok,
                  s |-> new_block.s,
                  reads |-> IF new_block.ok
                            THEN block_end.reads \o new_block.reads
                            ELSE <<>>,
                  err |-> new_block.err,
                  asked |-> block_end.asked + new_block.asked]

\* a slip in lines 85-89: the exhausted-block branch tested first
pull_boundary_first(s, samples) ==
    IF s.semi_block_index = semi_block_samples
    THEN pull(update_block_indices(s), samples)
    ELSE IF fits_in_semi_block(s, samples)
    THEN take_from_semi_block(s, samples)
    ELSE pull_spanning(s, samples)

pull(s, samples) ==
    IF fits_in_semi_block(s, samples)
    THEN take_from_semi_block(s, samples)
    ELSE IF s.semi_block_index = semi_block_samples
    THEN pull(update_block_indices(s), samples)
    ELSE pull_spanning(s, samples)

\* a slip in set_rate: the read head is repositioned at once
set_rate_and_reposition(s, rate) ==
    update_block_indices([s EXCEPT !.inv_time_factor = rate])

set_rate(s, rate) == [s EXCEPT !.inv_time_factor = rate]

\* a slip in set_time_factor: the factor stored where its reciprocal is meant
set_time_factor_not_inverted(s, time_factor) ==
    IF time_factor[1] = 0 THEN s
    ELSE [s EXCEPT !.inv_time_factor = time_factor]

\* a slip in set_time_factor: the reciprocal of 0 stored as an infinite rate
set_time_factor_unchecked(s, time_factor) ==
    [s EXCEPT !.inv_time_factor = <<time_factor[2], time_factor[1]>>]

\* 1 / time_factor; the division raises ZeroDivisionError before the assignment
set_time_factor(s, time_factor) ==
    IF time_factor[1] = 0 THEN s
    ELSE [s EXCEPT !.inv_time_factor = <<time_factor[2], time_factor[1]>>]

\* ------------------------------------------------------------------ actions
Commit(s) ==
    /\ semi_block_index' = s.semi_block_index
    /\ input_block_index' = s.input_block_index
    /\ sum_buffer_index' = s.sum_buffer_index
    /\ output_index' = s.output_index
    /\ inv_time_factor' = s.inv_time_factor

\* a caller thread that is in no call of pull
IdleThread ==
    [stack |-> <<>>, ret |-> [set |-> FALSE, len |-> 0], requested |-> 0,
     returned |-> 0, err |-> "none", calls |-> 0]

\* the engine driven by one caller: no thread ever runs
SingleCaller == [guarded |-> TRUE, th |-> [t \in Threads |-> IdleThread]]

\* __init__, lines 36-48
InitEngine ==
    /\ semi_block_index = 0
    /\ input_block_index = 0
    /\ sum_buffer_index = 0
    /\ output_index = 0
    /\ inv_time_factor = <<1, 1>>
    /\ last = [op |-> "init", n |-> 0, arg |-> <<1, 1>>, pre |-> State,
               ok |-> TRUE, err |-> "none", reads |-> <<>>, asked |-> 0]
    /\ mark = [op |-> "init", arg |-> <<1, 1>>, prev |-> <<1, 1>>,
               output_index |-> 0, input_block_index |-> 0]
    /\ total_requested = 0
    /\ stack = <<>>
    /\ ret = [set |-> FALSE, len |-> 0]
    /\ cases = <<>>
    /\ call = [n |-> 0, pre |-> State, err |-> "none"]

\* a source that supplies every range asked of it
Init ==
    /\ block_size \in BlockSizes
    /\ channels \in ChannelCounts
    /\ InitEngine
    /\ threads = SingleCaller
    /\ source = [bounded |-> FALSE, len |-> 0, reversed |-> "empty"]

\* a source of len samples: a range that ends beyond them raises
InitSrc ==
    /\ block_size \in BlockSizes
    /\ channels \in ChannelCounts
    /\ InitEngine
    /\ threads = SingleCaller
    /\ source \in [bounded : {TRUE}, len : 0..MaxSrc, reversed : {"empty"}]

\* a source asked for a reversed range start > stop either returns an empty
\* slice, as numpy slicing does, or raises
InitNeg ==
    /\ block_size \in BlockSizes
    /\ channels \in ChannelCounts
    /\ InitEngine
    /\ threads = SingleCaller
    /\ source \in [bounded : {FALSE}, len : {0}, reversed : {"empty", "raise"}]

\* one external call pull(n), run to its return or to the exception that leaves it
Pull(n) ==
    /\ stack = <<>>
    /\ output_index + n <= MaxOut
    /\ LET r == pull(State, n)
       IN  /\ Commit(r.s)
           /\ last' = [op |-> "pull", n |-> n, arg |-> <<1, 1>>, pre |-> State,
                       ok |-> r.ok, err |-> r.err, reads |-> r.reads,
                       asked |-> r.asked]
           /\ total_requested' = IF r.ok THEN total_requested + n ELSE total_requested
    /\ UNCHANGED <<block_size, channels, threads, source, mark, stepvars>>

\* pull(n) with n < 0, asked where every slice it takes is a reversed range
\* between non-negative positions
PullNegative(n) ==
    /\ n < 0
    /\ semi_block_index + n >= 0
    /\ input_block_index + n >= 0
    /\ sum_buffer_index + n >= 0
    /\ Pull(n)

SetRate(rate) ==
    /\ stack = <<>>
    /\ Commit(set_rate(State, rate))
    /\ last' = [op |-> "set_rate", n |-> 0, arg |-> rate, pre |-> State,
                ok |-> TRUE, err |-> "none", reads |-> <<>>, asked |-> 0]
    /\ mark' = [op |-> "set_rate", arg |-> rate, prev |-> inv_time_factor,
                output_index |-> output_index,
                input_block_index |-> input_block_index]
    /\ UNCHANGED <<block_size, channels, threads, source, total_requested, stepvars>>

SetTimeFactor(time_factor) ==
    /\ stack = <<>>
    /\ Commit(set_time_factor(State, time_factor))
    /\ last' = [op |-> "set_time_factor", n |-> 0, arg |-> time_factor,
                pre |-> State, ok |-> time_factor[1] # 0,
                err |-> IF time_factor[1] = 0 THEN "ZeroDivisionError" ELSE "none",
                reads |-> <<>>, asked |-> 0]
    /\ mark' = IF time_factor[1] = 0 THEN mark
               ELSE [op |-> "set_time_factor", arg |-> time_factor,
                     prev |-> inv_time_factor,
                     output_index |-> output_index,
                     input_block_index |-> input_block_index]
    /\ UNCHANGED <<block_size, channels, threads, source, total_requested, stepvars>>

\* ------------------------------------------------ pull, one invocation a step
Frame(samples) == [samples |-> samples, pc |-> "line85", block_end |-> 0]

Top == stack[Len(stack)]

Pop == SubSeq(stack, 1, Len(stack) - 1)

\* the running frame waits at line pc while the frame of pull(samples) runs;
\* at the interpreter's limit the call raises RecursionError instead, which
\* unwinds every frame
Invoke(pc, block_end, samples) ==
    IF Len(stack) >= MaxDepth
    THEN /\ stack' = <<>>
         /\ call' = [call EXCEPT !.err = "RecursionError"]
    ELSE /\ stack' = Append([stack EXCEPT ![Len(stack)] =
                                [@ EXCEPT !.pc = pc, !.block_end = block_end]],
                            Frame(samples))
         /\ UNCHANGED call

Idle == stack = <<>>

InFlight == /\ stack # <<>>
            /\ Top.pc = "line85"
            /\ ~ret.set

\* the caller enters pull(n)
BeginPull(n) ==
    /\ Idle
    /\ output_index + n <= MaxOut
    /\ stack' = <<Frame(n)>>
    /\ ret' = [set |-> FALSE, len |-> 0]
    /\ cases' = <<>>
    /\ call' = [n |-> n, pre |-> State, err |-> "none"]
    /\ UNCHANGED <<block_size, channels, threads, semi_block_index, input_block_index,
                   sum_buffer_index, output_index, inv_time_factor, source,
                   last, mark, total_requested>>

\* lines 85-86: the request fits, the frame returns what it took
StepTake ==
    /\ InFlight
    /\ fits_in_semi_block(State, Top.samples)
    /\ LET r == take_from_semi_block(State, Top.samples)
       IN  /\ Commit(r.s)
           /\ IF r.ok
              THEN /\ stack' = Pop
                   /\ ret' = [set |-> TRUE, len |-> Len(r.reads)]
                   /\ UNCHANGED call
              ELSE /\ stack' = <<>>
                   /\ call' = [call EXCEPT !.err = r.err]
                   /\ UNCHANGED ret
    /\ cases' = Append(cases, "A")
    /\ UNCHANGED <<block_size, channels, threads, source, last, mark, total_requested>>

\* lines 87-89: the semi-block is exhausted, the indices are updated and pull
\* is entered again with the same request
StepExhausted ==
    /\ InFlight
    /\ ~fits_in_semi_block(State, Top.samples)
    /\ semi_block_index = semi_block_samples
    /\ Commit(update_block_indices(State))
    /\ Invoke("line89", 0, Top.samples)
    /\ cases' = Append(cases, "B")
    /\ UNCHANGED <<block_size, channels, threads, source, last, mark, total_requested, ret>>

\* line 90: the request goes beyond the semi-block, pull is entered for the
\* remainder of the semi-block
StepSpanning ==
    /\ InFlight
    /\ ~fits_in_semi_block(State, Top.samples)
    /\ semi_block_index # semi_block_samples
    /\ Invoke("line90", 0, semi_block_samples - semi_block_index)
    /\ cases' = Append(cases, "C")
    /\ UNCHANGED <<block_size, channels, threads, semi_block_index, input_block_index,
                   sum_buffer_index, output_index, inv_time_factor, source,
                   last, mark, total_requested, ret>>

\* line 89: the retry returned, its result is returned as it is
ReturnRetry ==
    /\ stack # <<>>
    /\ ret.set
    /\ Top.pc = "line89"
    /\ stack' = Pop
    /\ UNCHANGED <<block_size, channels, threads, semi_block_index, input_block_index,
                   sum_buffer_index, output_index, inv_time_factor, source,
                   last, mark, total_requested, ret, cases, call>>

\* lines 90-92: block_end returned; the indices are updated and pull is
\* entered for what is left of the request
ResumeAfterBlockEnd ==
    /\ stack # <<>>
    /\ ret.set
    /\ Top.pc = "line90"
    /\ Commit(update_block_indices(State))
    /\ Invoke("line92", ret.len, Top.samples - ret.len)
    /\ ret' = [set |-> FALSE, len |-> 0]
    /\ UNCHANGED <<block_size, channels, threads, source, last, mark, total_requested, cases>>

\* lines 92-93: new_block returned; the two parts are concatenated and returned
ReturnConcatenated ==
    /\ stack # <<>>
    /\ ret.set
    /\ Top.pc = "line92"
    /\ stack' = Pop
    /\ ret' = [set |-> TRUE, len |-> Top.block_end + ret.len]
    /\ UNCHANGED <<block_size, channels, threads, semi_block_index, input_block_index,
                   sum_buffer_index, output_index, inv_time_factor, source,
                   last, mark, total_requested, cases, call>>

StepPull ==
    \/ StepTake
    \/ StepExhausted
    \/ StepSpanning
    \/ ReturnRetry
    \/ ResumeAfterBlockEnd
    \/ ReturnConcatenated

\* every positive block size up to the bound, block size 1 included
InitStep ==
    /\ block_size \in 1..MaxBlock
    /\ channels \in ChannelCounts
    /\ InitEngine
    /\ threads = SingleCaller
    /\ source = [bounded |-> FALSE, len |-> 0, reversed |-> "empty"]

Next ==
    \/ \E n \in 0..MaxPull : Pull(n)
    \/ \E rate \in Rates : SetRate(rate)
    \/ \E time_factor \in TimeFactors : SetTimeFactor(time_factor)

NextNeg ==
    \/ Next
    \/ \E n \in (0 - MaxNeg)..(0 - 1) : PullNegative(n)

Spec == Init /\ [][Next]_vars

SpecSrc == InitSrc /\ [][Next]_vars

SpecNeg == InitNeg /\ [][NextNeg]_vars

NextStep ==
    \/ \E n \in 0..MaxPull : BeginPull(n)
    \/ StepPull
    \/ \E rate \in Rates : SetRate(rate)
    \/ \E time_factor \in TimeFactors : SetTimeFactor(time_factor)

SpecStep == InitStep /\ [][NextStep]_vars

\* __init__ checks neither argument: a block size of 0 and a channel count
\* of 0 construct a Stretcher like any other
InitCtor ==
    /\ block_size \in 0..MaxBlock
    /\ channels \in 0..MaxChannels
    /\ InitEngine
    /\ threads = SingleCaller
    /\ source = [bounded |-> FALSE, len |-> 0, reversed |-> "empty"]

SpecCtor == InitCtor /\ [][NextStep]_vars

\* ---------------------------------------------------- two caller threads
\* Two threads call pull on one engine.  A thread runs one statement that
\* reads or writes a cursor per step (a statement on locals only is taken
\* with the one before it), so the steps of the two threads interleave
\* between the test of line 85 and the increments of lines 57-60.  With
\* threads.guarded the callers hold a mutex around each call of pull.

Th(t) == threads.th[t]

TTop(t) == Th(t).stack[Len(Th(t).stack)]

TFrame(samples) ==
    [samples |-> samples, pc |-> "line85", block_end |-> 0, width |-> 0,
     ragged |-> FALSE, after |-> "none"]

\* the fields no thread step changes
ThreadFrame == <<block_size, channels, inv_time_factor, source, last, mark,
                 total_requested, stepvars>>

\* thread t goes on with rec as its record
SetTh(t, rec) == threads' = [threads EXCEPT !.th[t] = rec]

\* thread t goes on with f as its running frame
SetTop(t, f) == SetTh(t, [Th(t) EXCEPT !.stack[Len(Th(t).stack)] = f])

\* the running frame of t waits at pc while the frame of pull(samples) runs
TInvoke(t, pc, samples) ==
    IF Len(Th(t).stack) >= MaxDepth
    THEN SetTh(t, [Th(t) EXCEPT !.stack = <<>>, !.err = "RecursionError"])
    ELSE SetTh(t, [Th(t) EXCEPT
                      !.stack = Append([@ EXCEPT ![Len(@)] = [@ EXCEPT !.pc = pc]],
                                       TFrame(samples)),
                      !.ret = [set |-> FALSE, len |-> 0]])

\* the running frame of t returns len columns
TReturn(t, len) ==
    SetTh(t, [Th(t) EXCEPT
                 !.stack = SubSeq(@, 1, Len(@) - 1),
                 !.ret = [set |-> TRUE, len |-> len],
                 !.returned = IF Len(Th(t).stack) = 1 THEN @ + len ELSE @])

\* the callers without a mutex: any thread may enter pull at any time
CanEnterUnlocked(t) == TRUE

\* the callers' mutex: a thread enters pull when no other thread is in it
CanEnter(t) ==
    threads.guarded => \A u \in Threads \ {t} : Th(u).stack = <<>>

TAt(t, pc) == Th(t).stack # <<>> /\ TTop(t).pc = pc

\* thread t calls pull(n)
TBegin(t, n) ==
    /\ Th(t).stack = <<>>
    /\ CanEnter(t)
    /\ output_index + n <= MaxThreadOut
    /\ Th(t).calls < MaxThreadCalls
    /\ SetTh(t, [Th(t) EXCEPT !.stack = <<TFrame(n)>>,
                              !.ret = [set |-> FALSE, len |-> 0],
                              !.requested = n,
                              !.calls = @ + 1])
    /\ UNCHANGED <<ThreadFrame, semi_block_index, input_block_index,
                   sum_buffer_index, output_index>>

\* lines 85 and 87: the branch is chosen on the cursors as they are now
TTest(t) ==
    /\ TAt(t, "line85")
    /\ SetTop(t, [TTop(t) EXCEPT
                     !.pc = IF fits_in_semi_block(State, TTop(t).samples)
                            THEN "line66"
                            ELSE IF semi_block_index = semi_block_samples
                            THEN "line96" ELSE "line90",
                     !.after = "line89"])
    /\ UNCHANGED <<ThreadFrame, semi_block_index, input_block_index,
                   sum_buffer_index, output_index>>

\* lines 66-70: the window and the source are sliced at the cursors as they
\* are now
TRead(t) ==
    /\ TAt(t, "line66")
    /\ LET chunks == read_chunks(State, TTop(t).samples)
       IN  IF chunks.err # "none"
           THEN SetTh(t, [Th(t) EXCEPT !.stack = <<>>, !.err = chunks.err])
           ELSE SetTop(t, [TTop(t) EXCEPT !.pc = "line57",
                                          !.width = Len(chunks.reads),
                                          !.ragged = chunks.ragged])
    /\ UNCHANGED <<ThreadFrame, semi_block_index, input_block_index,
                   sum_buffer_index, output_index>>

\* lines 57-60, a statement a step
TIncrement(t) ==
    /\ Th(t).stack # <<>>
    /\ TTop(t).pc \in {"line57", "line58", "line59", "line60"}
    /\ LET pc == TTop(t).pc
           samples == TTop(t).samples
       IN  /\ input_block_index' =
                  IF pc = "line57" THEN input_block_index + samples
                  ELSE input_block_index
           /\ sum_buffer_index' =
                  IF pc = "line58" THEN sum_buffer_index + samples
                  ELSE sum_buffer_index
           /\ output_index' =
                  IF pc = "line59" THEN output_index + samples ELSE output_index
           /\ semi_block_index' =
                  IF pc = "line60" THEN semi_block_index + samples
                  ELSE semi_block_index
           /\ SetTop(t, [TTop(t) EXCEPT
                            !.pc = CASE pc = "line57" -> "line58"
                                     [] pc = "line58" -> "line59"
                                     [] pc = "line59" -> "line60"
                                     [] pc = "line60" -> "line74"])
    /\ UNCHANGED ThreadFrame

\* line 74 and the return of line 86
TSum(t) ==
    /\ TAt(t, "line74")
    /\ IF TTop(t).ragged
       THEN SetTh(t, [Th(t) EXCEPT !.stack = <<>>, !.err = "ValueError"])
       ELSE TReturn(t, TTop(t).width)
    /\ UNCHANGED <<ThreadFrame, semi_block_index, input_block_index,
                   sum_buffer_index, output_index>>

\* lines 96-98, a statement a step; after line 98 pull is entered again, with
\* the request (line 89) or with what is left of it (line 92)
TUpdate(t) ==
    /\ Th(t).stack # <<>>
    /\ TTop(t).pc \in {"line96", "line97", "line98"}
    /\ LET pc == TTop(t).pc
           f == TTop(t)
       IN  /\ sum_buffer_index' =
                  IF pc = "line96" THEN input_block_index ELSE sum_buffer_index
           /\ input_block_index' =
                  IF pc = "line97"
                  THEN RoundHalfEven(output_index * inv_time_factor[1],
                                     inv_time_factor[2])
                  ELSE input_block_index
           /\ semi_block_index' =
                  IF pc = "line98" THEN 0 ELSE semi_block_index
           /\ IF pc = "line96" THEN SetTop(t, [f EXCEPT !.pc = "line97"])
              ELSE IF pc = "line97" THEN SetTop(t, [f EXCEPT !.pc = "line98"])
              ELSE IF f.after = "line89"
                   THEN TInvoke(t, "line89", f.samples)
                   ELSE TInvoke(t, "line92", f.samples - f.block_end)
    /\ UNCHANGED <<ThreadFrame, output_index>>

\* line 90: pull is entered for the rest of the semi-block as it is now
TBlockEnd(t) ==
    /\ TAt(t, "line90")
    /\ ~Th(t).ret.set
    /\ TInvoke(t, "line90", semi_block_samples - semi_block_index)
    /\ UNCHANGED <<ThreadFrame, semi_block_index, input_block_index,
                   sum_buffer_index, output_index>>

\* a frame entered at line 89, 90 or 92 returned to the running frame
TResume(t) ==
    /\ Th(t).stack # <<>>
    /\ Th(t).ret.set
    /\ TTop(t).pc \in {"line89", "line90", "line92"}
    /\ IF TTop(t).pc = "line89" THEN TReturn(t, Th(t).ret.len)
       ELSE IF TTop(t).pc = "line92"
            THEN TReturn(t, TTop(t).block_end + Th(t).ret.len)
       ELSE SetTh(t, [Th(t) EXCEPT
                         !.stack[Len(Th(t).stack)] =
                             [@ EXCEPT !.pc = "line96", !.after = "line92",
                                       !.block_end = Th(t).ret.len],
                         !.ret = [set |-> FALSE, len |-> 0]])
    /\ UNCHANGED <<ThreadFrame, semi_block_index, input_block_index,
                   sum_buffer_index, output_index>>

\* the callers either all hold the mutex around pull or none does
InitConc ==
    /\ block_size \in BlockSizes
    /\ channels \in ChannelCounts
    /\ InitEngine
    /\ threads \in [guarded : BOOLEAN, th : {[t \in Threads |-> IdleThread]}]
    /\ source = [bounded |-> FALSE, len |-> 0, reversed |-> "empty"]

NextConc ==
    \E t \in Threads :
        \/ \E n \in 0..MaxThreadPull : TBegin(t, n)
        \/ TTest(t)
        \/ TRead(t)
        \/ TIncrement(t)
        \/ TSum(t)
        \/ TUpdate(t)
        \/ TBlockEnd(t)
        \/ TResume(t)

SpecConc == InitConc /\ [][NextConc]_vars

\* ------------------------------------------------------------------- claims
WasPull == last.op = "pull"

EvenBlock == block_size % 2 = 0

WasSetter == last.op \in {"set_rate", "set_time_factor"}

Abs(x) == IF x < 0 THEN 0 - x ELSE x

Min(a, b) == IF a < b THEN a ELSE b

\* p1/q1 >= p2/q2 for positive denominators
RateAtLeast(r1, r2) == r1[1] * r2[2] >= r2[1] * r1[2]

\* C1: whatever the split n1 + n2 of the request of the last pull, pull(n1)
\* followed by pull(n2) from the state before it reads the same source
\* positions with the same window columns, sample for sample, and ends with
\* the same four cursors as the single pull did.
ChunkingInvariance ==
    WasPull =>
        \A n1 \in 0..last.n :
            LET first == pull(last.pre, n1)
                second == pull(first.s, last.n - n1)
            IN  /\ first.ok /\ second.ok
                /\ first.reads \o second.reads = last.reads
                /\ second.s = State

\* a pull that began inside a semi-block and went beyond its end, so that
\* the splits fall before, on and after the boundary
ChunkingWitness ==
    /\ WasPull
    /\ last.pre.semi_block_index > 0
    /\ last.pre.semi_block_index < semi_block_samples
    /\ last.n > semi_block_samples - last.pre.semi_block_index + 1

\* C2: between calls (so at the start of every external pull), after any
\* pulls with n >= 0 and any rate changes, 0 <= semiBlockIndex <=
\* semiBlockSamples.
SemiBlockCursorInvariant ==
    /\ 0 <= semi_block_index
    /\ semi_block_index <= semi_block_samples

\* an exhausted semi-block, reached by a pull that crossed a boundary after
\* a rate change
SemiBlockCursorWitness ==
    /\ WasPull
    /\ EvenBlock
    /\ semi_block_index = semi_block_samples
    /\ last.n > semi_block_samples
    /\ mark.op # "init"
    /\ mark.output_index > 0

PullZeroIsNoOp ==
    (WasPull /\ last.n = 0) =>
        /\ last.ok
        /\ last.reads = <<>>
        /\ Cursors(State) = Cursors(last.pre)

\* a pull(0) made with the semi-block exhausted and the boundary pending
PullZeroWitness ==
    /\ WasPull
    /\ last.n = 0
    /\ last.pre.semi_block_index = semi_block_samples
    /\ last.pre.output_index > 0

\* C5: every step leaves outputIndex equal to the sum of the n requested so
\* far and never lowers it, and a pull(n) returns exactly n samples and
\* raises outputIndex by n.
OutputAccountingStep ==
    /\ output_index' >= output_index
    /\ output_index' = total_requested'
    /\ (last'.op = "pull") =>
           /\ last'.ok
           /\ Len(last'.reads) = last'.n
           /\ output_index' = output_index + last'.n

OutputAccounting == [][OutputAccountingStep]_vars

\* a pull of the largest request, after earlier pulls and a rate change
OutputAccountingWitness ==
    /\ WasPull
    /\ last.n = MaxPull
    /\ total_requested > last.n
    /\ mark.output_index > 0
    /\ output_index = total_requested

\* C7: a setter changes no cursor, and the samples a pull emits before its
\* first block-boundary update are read from the same source positions and
\* window columns whatever the rate is.
RateChangeDeferred ==
    /\ WasSetter => Cursors(State) = Cursors(last.pre)
    /\ WasPull =>
           \A rate \in Rates :
               LET k == Min(last.n, semi_block_samples - last.pre.semi_block_index)
                   other == pull([last.pre EXCEPT !.inv_time_factor = rate], last.n)
               IN  /\ SubSeq(other.reads, 1, k) = SubSeq(last.reads, 1, k)
                   /\ last.n = k => Cursors(other.s) = Cursors(State)

\* a pull made right after the rate was changed inside a semi-block, which
\* emitted the rest of the semi-block and went on beyond the boundary
RateChangeDeferredWitness ==
    /\ WasPull
    /\ mark.op # "init"
    /\ mark.prev # last.pre.inv_time_factor
    /\ mark.output_index = last.pre.output_index
    /\ last.pre.semi_block_index > 0
    /\ last.pre.semi_block_index < semi_block_samples
    /\ last.n > semi_block_samples - last.pre.semi_block_index

\* twice the distance between the input advance and half the output advance
\* since the last setter call
StretchError ==
    Abs(2 * (input_block_index - mark.input_block_index)
        - (output_index - mark.output_index))

AfterTimeFactorTwo == mark.op = "set_time_factor" /\ mark.arg = <<2, 1>>

\* C8 as stated: after setTimeFactor(2.0), whatever was pulled before it,
\* the N samples pulled since advance inputBlockIndex by N/2 to within one
\* blockSize.
StretchMagnitude ==
    (EvenBlock /\ AfterTimeFactorTwo) => StretchError <= 2 * block_size

\* C8 amended: the same for a Stretcher that had produced no output when
\* setTimeFactor(2.0) was called.
StretchMagnitudeFresh ==
    (AfterTimeFactorTwo /\ mark.output_index = 0)
        => StretchError <= 2 * block_size

\* setTimeFactor(2.0) on a fresh Stretcher, then MaxOut samples pulled
StretchMagnitudeWitness ==
    /\ AfterTimeFactorTwo
    /\ mark.output_index = 0
    /\ output_index = MaxOut
    /\ input_block_index < output_index

\* C9: a pull that fails because the source does not supply a range leaves
\* the four cursors at their values before the call.
PullIsTransactional ==
    (EvenBlock /\ WasPull /\ ~last.ok) => Cursors(State) = Cursors(last.pre)

\* C10: a pull(n) with n < 0 fails with InvalidRequest and changes no cursor.
NegativePullRejected ==
    (EvenBlock /\ WasPull /\ last.n < 0) =>
        /\ ~last.ok
        /\ last.err = "InvalidRequest"
        /\ Cursors(State) = Cursors(last.pre)

ConstructionValidated ==
    (~Idle \/ cases # <<>>) => (block_size > 0 /\ channels > 0)

\* the output position of the last block boundary
LastBoundary == output_index - semi_block_index

\* no setter was called after output began
ConstantRate == mark.output_index = 0

FirstBoundaryCrossed == LastBoundary >= semi_block_samples /\ semi_block_samples > 0

\* C13 as stated: at a constant rate, once the first boundary is crossed,
\* inputBlockIndex - sumBufferIndex = semiBlockSamples between pulls.
SummingBufferTrails ==
    (EvenBlock /\ ConstantRate /\ FirstBoundaryCrossed) =>
        input_block_index - sum_buffer_index = semi_block_samples

\* C13 amended: at a constant rate r, once the first boundary is crossed,
\* inputBlockIndex - sumBufferIndex = round(B r) - round((B - semiBlockSamples) r)
\* - semiBlockSamples, B the output position of the last boundary; at r = 1
\* the two heads are equal.
SummingBufferGap ==
    (ConstantRate /\ FirstBoundaryCrossed) =>
        /\ input_block_index - sum_buffer_index =
               RoundHalfEven(LastBoundary * inv_time_factor[1], inv_time_factor[2])
               - RoundHalfEven((LastBoundary - semi_block_samples) * inv_time_factor[1],
                               inv_time_factor[2])
               - semi_block_samples
        /\ inv_time_factor = <<1, 1>> => input_block_index = sum_buffer_index

\* rate 1 from construction on, two boundaries crossed, inside a semi-block
SummingBufferGapWitness ==
    /\ EvenBlock
    /\ mark.op = "init"
    /\ LastBoundary >= 2 * semi_block_samples
    /\ semi_block_index > 0
    /\ semi_block_index < semi_block_samples
    /\ input_block_index = sum_buffer_index

\* the weight of window column c (counted from 0), 0 outside the window
Weight(c) ==
    IF c >= 0 /\ c < block_size THEN hanning(block_size)[c + 1] ELSE 0

\* source positions a pull within the bounds can read
Positions == 0..(2 * MaxOut + MaxBlock)

\* the coefficient of source sample p in the output sample a read produced
Coeff(read, p) ==
    (IF read[1] = p THEN Weight(read[2]) ELSE 0)
    + (IF read[3] = p THEN Weight(read[4]) ELSE 0)

\* the reference synthesis: the coefficient of source sample p in output
\* sample t, summed over the blocks j, j-1, .., 0; block j starts at source
\* position round(j * semiBlockSamples * r) and at output j * semiBlockSamples
RECURSIVE RefCoeff(_, _, _)
RefCoeff(j, t, p) ==
    IF j < 0 THEN 0
    ELSE LET col == t - j * semi_block_samples
             start == RoundHalfEven(j * semi_block_samples * inv_time_factor[1],
                                    inv_time_factor[2])
         IN  (IF start + col = p THEN Weight(col) ELSE 0) + RefCoeff(j - 1, t, p)

\* what the engine adds to the reference in the first semi-block: the source
\* from position 0 on, weighted with the second half of the window
StartTerm(t, p) ==
    IF t < semi_block_samples /\ p = t THEN Weight(semi_block_samples + t) ELSE 0

\* C14 as stated: from a fresh engine at a constant rate every output sample,
\* from the first semi-block on, is the reference overlap-add sample.
RefinesReferenceOLA ==
    (EvenBlock /\ ConstantRate /\ WasPull /\ last.ok) =>
        \A k \in 1..Len(last.reads) : \A p \in Positions :
            Coeff(last.reads[k], p)
                = RefCoeff(last.pre.output_index + k - 1,
                           last.pre.output_index + k - 1, p)

\* C14 amended: from a fresh engine at a constant rate every output sample
\* is the reference overlap-add sample plus, in the first semi-block only,
\* source[t] * window[semiBlockSamples + t].
RefinesReferenceOLAAfterStart ==
    (EvenBlock /\ ConstantRate /\ WasPull /\ last.ok) =>
        \A k \in 1..Len(last.reads) : \A p \in Positions :
            LET t == last.pre.output_index + k - 1
            IN  Coeff(last.reads[k], p) = RefCoeff(t, t, p) + StartTerm(t, p)

\* a pull at a constant rate other than 1 that returned samples of the
\* third semi-block of a window with non-zero weights
RefinesReferenceOLAWitness ==
    /\ block_size = 4
    /\ ConstantRate
    /\ WasPull
    /\ last.ok
    /\ inv_time_factor = <<3, 2>>
    /\ last.pre.output_index < semi_block_samples
    /\ Len(last.reads) >= 2
    /\ output_index > 2 * semi_block_samples

\* C16: at rate 1 the two window weights applied to a steady-state output
\* sample, window[i] and window[semiBlockSamples + i], sum to 1, so that a
\* source of constant amplitude comes out at that amplitude (Hann(4)).
UnityGain ==
    (block_size = 4 /\ ConstantRate /\ inv_time_factor = <<1, 1>>
        /\ WasPull /\ last.ok) =>
        \A k \in 1..Len(last.reads) :
            last.pre.output_index + k - 1 >= semi_block_samples =>
                /\ last.reads[k][4] = semi_block_samples + last.reads[k][2]
                /\ Weight(last.reads[k][2]) + Weight(last.reads[k][4]) = WindowUnit

\* C18: pull(0) asks the source for no slice at all.
PullZeroReadsNothing ==
    (EvenBlock /\ WasPull /\ last.n = 0) => last.asked = 0

\* --------------------------------------------------------- C15, threads
AllReturned == \A t \in Threads : Th(t).stack = <<>>

RECURSIVE SumReturned(_)
SumReturned(S) ==
    IF S = {} THEN 0
    ELSE LET t == CHOOSE u \in S : TRUE
         IN  Th(t).returned + SumReturned(S \ {t})

\* C15: with the calls of pull serialized, semiBlockIndex stays within
\* 0..semiBlockSamples, no call ends in an exception, every call returns the
\* number of samples asked for and outputIndex is the number of samples
\* returned; without the mutex the witness states are reached.
SerializedPullsSafe ==
    threads.guarded =>
        /\ semi_block_index >= 0
        /\ semi_block_index <= semi_block_samples
        /\ \A t \in Threads :
              /\ Th(t).err = "none"
              /\ (Th(t).stack = <<>> /\ Th(t).ret.set) =>
                     Th(t).ret.len = Th(t).requested
        /\ AllReturned => output_index = SumReturned(Threads)

\* without the mutex: both threads have returned, semiBlockIndex is beyond the
\* semi-block
UnserializedPullsWitness ==
    /\ ~threads.guarded
    /\ AllReturned
    /\ \A t \in Threads : Th(t).ret.set /\ Th(t).err = "none"
    /\ semi_block_index > semi_block_samples

\* ------------------------------------------------- C17, C19, C20, stepwise
\* the definitions of this section speak of the frames of SpecStep

\* the running frame is at line 91, block_end having returned
AtLine91 == stack # <<>> /\ ret.set /\ Top.pc = "line90"

\* a step that runs _update_block_indices: line 88 or line 91
IsUpdateStep ==
    \/ cases' = Append(cases, "B")
    \/ AtLine91 /\ vars' # vars

\* output_index * inv_time_factor lies exactly between two integers
ExactHalf ==
    2 * ((output_index * inv_time_factor[1]) % inv_time_factor[2])
        = inv_time_factor[2]

\* n is the integer nearest to num / den, the even one of the two at a tie
NearestTieEven(n, num, den) ==
    /\ 2 * Abs(den * n - num) <= den
    /\ 2 * Abs(den * n - num) = den => n % 2 = 0

\* C17: the boundary update sets sumBufferIndex to the old inputBlockIndex,
\* inputBlockIndex to round(outputIndex * invTimeFactor) with exact halves
\* going to the even neighbour at every boundary, semiBlockIndex to 0, and
\* leaves outputIndex and invTimeFactor as they are.
BlockBoundaryUpdate ==
    [][IsUpdateStep =>
          /\ sum_buffer_index' = input_block_index
          /\ NearestTieEven(input_block_index',
                            output_index * inv_time_factor[1], inv_time_factor[2])
          /\ semi_block_index' = 0
          /\ output_index' = output_index
          /\ inv_time_factor' = inv_time_factor]_vars

\* just after the update of line 88, at an exact half that was rounded down,
\* the rate having been changed after output began
BlockBoundaryUpdateWitness ==
    /\ InFlight
    /\ cases # <<>>
    /\ cases[Len(cases)] = "B"
    /\ semi_block_index = 0
    /\ ExactHalf
    /\ input_block_index * inv_time_factor[2] < output_index * inv_time_factor[1]
    /\ mark.output_index > 0

\* C19: the update of line 91 runs with semiBlockIndex = semiBlockSamples (that
\* of line 88 is guarded by the same equality), and outputIndex - semiBlockIndex
\* is a multiple of semiBlockSamples in every state.
BoundaryEverySemiBlock ==
    /\ AtLine91 => semi_block_index = semi_block_samples
    /\ IF semi_block_samples = 0 THEN LastBoundary = 0
       ELSE LastBoundary % semi_block_samples = 0
    /\ LastBoundary >= 0

\* block_end returned inside a spanning request, past the second boundary,
\* the rate having been changed after output began
BoundaryEverySemiBlockWitness ==
    /\ AtLine91
    /\ semi_block_samples >= 2
    /\ output_index >= 2 * semi_block_samples
    /\ mark.output_index > 0
    /\ call.n > ret.len

\* a step that runs _take_from_semi_block
IsTakeStep == cases' = Append(cases, "A")

\* C20: _take_from_semi_block(k) is entered with k >= 0 and semiBlockIndex + k
\* <= semiBlockSamples; the current chunk uses the k window columns from
\* semiBlockIndex on, all below semiBlockSamples, the summing chunk the k
\* columns semiBlockSamples further, all below 2 * semiBlockSamples; no
\* exception leaves it and the four cursors advance by k.
WindowReadsInBounds ==
    [][IsTakeStep =>
          LET k == Top.samples
              r == take_from_semi_block(State, k)
          IN  /\ k >= 0
              /\ semi_block_index + k <= semi_block_samples
              /\ r.ok
              /\ Len(r.reads) = k
              /\ \A i \in 1..Len(r.reads) :
                    /\ r.reads[i][2] = semi_block_index + i - 1
                    /\ r.reads[i][2] \in 0..(semi_block_samples - 1)
                    /\ r.reads[i][4] = semi_block_samples + semi_block_index + i - 1
                    /\ r.reads[i][4] \in
                           semi_block_samples..(2 * semi_block_samples - 1)
                    /\ r.reads[i][4] < block_size
              /\ ret'.set
              /\ ret'.len = k
              /\ call'.err = "none"
              /\ semi_block_index' = semi_block_index + k
              /\ input_block_index' = input_block_index + k
              /\ sum_buffer_index' = sum_buffer_index + k
              /\ output_index' = output_index + k]_vars

\* a take of a whole semi-block of two samples has just returned to the caller
WindowReadsInBoundsWitness ==
    /\ Idle
    /\ ret.set
    /\ ret.len = 2
    /\ cases # <<>>
    /\ cases[Len(cases)] = "A"
    /\ semi_block_index = semi_block_samples
    /\ output_index > semi_block_samples
    /\ call.err = "none"

\* ------------------------------------------------------------- C6, stepwise
NoExhaustedTwice ==
    \A i \in 1..(Len(cases) - 1) : ~(cases[i] = "B" /\ cases[i + 1] = "B")

\* the invocations of one call are bounded by its request, no call ends in
\* RecursionError, and a frame that has not returned can always take a step
RecursionBounded ==
    /\ Len(cases) <= 2 * call.n + 2
    /\ call.err # "RecursionError"
    /\ ~Idle => ENABLED StepPull

\* C6 as stated: for every blockSize > 0 the recursion of pull(n) ends, and
\* the exhausted-block branch is never taken twice in a row.
PullTerminates == NoExhaustedTwice /\ RecursionBounded

\* C6 amended: the same for every blockSize >= 2, where semiBlockSamples >= 1.
PullTerminatesFromBlockSizeTwo ==
    block_size >= 2 => (NoExhaustedTwice /\ RecursionBounded)

\* a call that began with the semi-block exhausted, took the exhausted-block
\* branch once, then split its request, and has returned all of it
PullTerminatesWitness ==
    /\ block_size >= 2
    /\ Idle
    /\ ret.set
    /\ ret.len = call.n
    /\ Len(cases) >= 4
    /\ cases[1] = "B"
    /\ cases[2] = "C"

====
